---- MODULE Spec2Model ----
(***************************************************************************)
(* Argus v1.1.0 (src/argus.py): the per-endpoint health state machine      *)
(* ServiceState, the webhook delivery send_discord_embed, and the          *)
(* health-check loop of main.                                              *)
(*                                                                         *)
(* Four specifications share the module:                                   *)
(*   SpecServiceState  one ServiceState driven by arbitrary calls of       *)
(*                     record_success / record_failure, with the call log; *)
(*   SpecDeliver       one call of send_discord_embed against a sink that  *)
(*                     answers each POST arbitrarily, one loop iteration   *)
(*                     per step, with the log of POSTs and sleeps;         *)
(*   Spec              the loop of main over the configured endpoints;     *)
(*   FairSpec          the same loop with threshold 1, under the           *)
(*                     assumption that main keeps taking its steps.        *)
(***************************************************************************)
EXTENDS Integers, Sequences, FiniteSets, TLC

VARIABLES
    service,          \* SpecServiceState: the ServiceState under test
    calls,            \* SpecServiceState: log of the calls made on it
    dpc,              \* send_discord_embed: "idle" | "loop" | "done"
    attempt,          \* send_discord_embed: local attempt
    rate_limit_hits,  \* send_discord_embed: local rate_limit_hits
    backoff,          \* send_discord_embed: local backoff
    outcome,          \* send_discord_embed: "none" | "true" | "false" | "raised"
    posts,            \* log: the sink's answer to each POST of the delivery
    sleeps,           \* log: the argument of each completed time.sleep
    pc,               \* main: where the loop stands
    shutdown_requested, \* main: the global _shutdown_requested
    loki_instances,   \* main: the ServiceState of each Loki URL, in order
    grafana_instances, \* main: the ServiceState of each Grafana URL, in order
    idx,              \* main: position of the for loop in its list (0: none)
    waited,           \* main: time.sleep(1) calls completed in this wait
    cycles,           \* main: iterations of the while loop started so far
    caller,           \* main: what called send_discord_embed, or "none"
    events,           \* log: per endpoint, its probe results and the
                      \* notifications handed to send_alert / send_recovery
    probed,           \* log: the endpoints whose probe result this cycle
                      \* has recorded, in the order it recorded them
    cycle_error,      \* log: this cycle ended in the except of line 563
    requested_at      \* log: pc when _signal_handler ran, or "none"

svars == <<service, calls>>
dvars == <<dpc, attempt, rate_limit_hits, backoff, outcome, posts, sleeps>>
mvars == <<pc, shutdown_requested, loki_instances, grafana_instances, idx,
           waited, cycles, caller, events, probed, cycle_error,
           requested_at>>
vars == <<service, calls, dpc, attempt, rate_limit_hits, backoff, outcome,
          posts, sleeps, pc, shutdown_requested, loki_instances,
          grafana_instances, idx, waited, cycles, caller, events, probed,
          cycle_error, requested_at>>

(***************************************************************************)
(* Bounds of the model.                                                    *)
(***************************************************************************)
\* largest FAILURE_THRESHOLD explored (Config._validate requires >= 1)
MaxThreshold == 3
\* longest call log explored on one ServiceState
MaxCalls == 7
\* number of URLs in LOKI_URL (Config requires >= 1); GRAFANA_URL holds one
NumLoki == 1
\* iterations of the while loop of main explored
MaxCycles == 3
\* CHECK_INTERVAL_SECONDS explored (Config._validate requires >= 1)
CheckInterval == 2

\* diagnostic strings a probe may attach to a failure; none is empty
\* (check_loki / check_grafana always build a non-empty reason)
Reasons == {"timeout", "http500"}
\* the reason the probes of main attach to a failure
LoopReasons == {"timeout"}

(***************************************************************************)
(* ServiceState (src/argus.py 327-353).                                    *)
(***************************************************************************)
\* mutant of ServiceState: a fresh state waits for its first success
ServiceState_unhealthy_start(threshold) ==
    [threshold            |-> threshold,
     consecutive_failures |-> 0,
     is_healthy           |-> FALSE,
     last_reason          |-> ""]

\* __init__: a fresh state is healthy, with no failure and no reason
ServiceState(threshold) ==
    [threshold            |-> threshold,
     consecutive_failures |-> 0,
     is_healthy           |-> TRUE,
     last_reason          |-> ""]

\* mutant of record_success: the failure count survives a success
record_success_keeps_count(s) ==
    IF ~s.is_healthy
    THEN [state |-> [s EXCEPT !.is_healthy = TRUE, !.last_reason = ""],
          ret   |-> TRUE]
    ELSE [state |-> s, ret |-> FALSE]

\* mutant of record_success: recovery decided by the failure count
record_success_by_count(s) ==
    LET s1 == [s EXCEPT !.consecutive_failures = 0]
    IN  IF s.consecutive_failures > 0
        THEN [state |-> [s1 EXCEPT !.is_healthy = TRUE, !.last_reason = ""],
              ret   |-> TRUE]
        ELSE [state |-> s1, ret |-> FALSE]

\* record_success: the state after the call and the value returned
record_success(s) ==
    LET s1 == [s EXCEPT !.consecutive_failures = 0]
    IN  IF ~s1.is_healthy
        THEN [state |-> [s1 EXCEPT !.is_healthy = TRUE, !.last_reason = ""],
              ret   |-> TRUE]
        ELSE [state |-> s1, ret |-> FALSE]

\* mutant of record_failure: the threshold must be exceeded, not reached
record_failure_strict(s, reason) ==
    LET s1 == [s EXCEPT !.consecutive_failures = @ + 1,
                        !.last_reason = reason]
    IN  IF s1.is_healthy /\ s1.consecutive_failures > s1.threshold
        THEN [state |-> [s1 EXCEPT !.is_healthy = FALSE], ret |-> TRUE]
        ELSE [state |-> s1, ret |-> FALSE]

\* mutant of record_failure: the transition test forgets is_healthy
record_failure_realert(s, reason) ==
    LET s1 == [s EXCEPT !.consecutive_failures = @ + 1,
                        !.last_reason = reason]
    IN  IF s1.consecutive_failures >= s1.threshold
        THEN [state |-> [s1 EXCEPT !.is_healthy = FALSE], ret |-> TRUE]
        ELSE [state |-> s1, ret |-> FALSE]

\* mutant of record_failure: the reason is stored only while healthy
record_failure_keep_reason(s, reason) ==
    LET s1 == [s EXCEPT !.consecutive_failures = @ + 1,
                        !.last_reason = IF s.is_healthy THEN reason ELSE @]
    IN  IF s1.is_healthy /\ s1.consecutive_failures >= s1.threshold
        THEN [state |-> [s1 EXCEPT !.is_healthy = FALSE], ret |-> TRUE]
        ELSE [state |-> s1, ret |-> FALSE]

\* record_failure: the state after the call and the value returned
record_failure(s, reason) ==
    LET s1 == [s EXCEPT !.consecutive_failures = @ + 1,
                        !.last_reason = reason]
    IN  IF s1.is_healthy /\ s1.consecutive_failures >= s1.threshold
        THEN [state |-> [s1 EXCEPT !.is_healthy = FALSE], ret |-> TRUE]
        ELSE [state |-> s1, ret |-> FALSE]

(***************************************************************************)
(* send_discord_embed (src/argus.py 184-264).                              *)
(*                                                                         *)
(* A response of the sink is a record: raised says that session.post       *)
(* raised a requests.RequestException (then there is no status), status is *)
(* the HTTP status, and body, which matters only for a 429, says what      *)
(* resp.json() finds:                                                      *)
(*   "not_json"        resp.json() raises (a ValueError)                   *)
(*   "not_object"      JSON that is no object: .get raises AttributeError  *)
(*   "no_retry_after"  an object without the key: .get gives backoff       *)
(*   "null"            retry_after is null: float(None) raises TypeError   *)
(*   "non_numeric"     retry_after is a string float() rejects: ValueError *)
(*   "number"          retry_after is the number in field retry_after      *)
(* Time is counted in whole seconds.                                       *)
(***************************************************************************)
max_attempts == 3
max_rate_limit_retries == 5
initial_backoff == 2
max_retry_after == 60

\* retry_after hints the sink may send: negative, small, above the cap
RetryAfterValues == {-1, 1, 61}

Body(shape, n) == [shape |-> shape, retry_after |-> n]
NoBody == Body("none", 0)

RateLimitBodies ==
    {Body(sh, 0) : sh \in {"not_json", "not_object", "no_retry_after",
                           "null", "non_numeric"}}
    \cup {Body("number", n) : n \in RetryAfterValues}

Response(status, body) == [raised |-> FALSE, status |-> status, body |-> body]
RequestException == [raised |-> TRUE, status |-> 0, body |-> NoBody]

OkResponses == {Response(st, NoBody) : st \in {200, 204}}
RateLimitResponses == {Response(429, b) : b \in RateLimitBodies}
FailResponses == {Response(500, NoBody), RequestException}

Min(a, b) == IF a <= b THEN a ELSE b

\* line 232-234: float(resp.json().get("retry_after", backoff)) under
\* except (ValueError, KeyError); raised = an error that handler lets through
parse_retry_after(body, bo) ==
    CASE body.shape = "not_json"       -> [raised |-> FALSE, value |-> bo]
      [] body.shape = "not_object"     -> [raised |-> TRUE,  value |-> 0]
      [] body.shape = "no_retry_after" -> [raised |-> FALSE, value |-> bo]
      [] body.shape = "null"           -> [raised |-> TRUE,  value |-> 0]
      [] body.shape = "non_numeric"    -> [raised |-> FALSE, value |-> bo]
      [] OTHER                         -> [raised |-> FALSE, value |-> body.retry_after]

\* mutant of clamp_retry_after: the hint is taken as it comes
clamp_retry_after_uncapped(v) == v

\* line 235: retry_after = min(retry_after, 60.0)
clamp_retry_after(v) == Min(v, max_retry_after)

\* time.sleep raises ValueError on a negative argument
sleep_raises(secs) == secs < 0

\* mutant of rate_limit_exhausted: the fifth hit already gives up
rate_limit_exhausted_early(hits) == hits >= max_rate_limit_retries

\* mutant of rate_limit_exhausted: one more hit is tolerated
rate_limit_exhausted_late(hits) == hits > max_rate_limit_retries + 1

\* line 224: the cap on rate-limit hits is checked after counting the hit
rate_limit_exhausted(hits) == hits > max_rate_limit_retries

\* mutant of is_success: 204 No Content is not taken for a success
is_success_only_200(status) == status = 200

\* line 244
is_success(status) == status \in {200, 204}

\* line 216: the while condition
attempts_left(n) == n < max_attempts

\* lines 210-215: the locals at the first test of the while condition
DeliverStart ==
    /\ dpc' = "loop"
    /\ attempt' = 0
    /\ rate_limit_hits' = 0
    /\ backoff' = initial_backoff
    /\ outcome' = "none"
    /\ posts' = <<>>
    /\ sleeps' = <<>>

\* the logs of a delivery, kept only where logged says so
Logged(logged, log, entry) == IF logged THEN Append(log, entry) ELSE log

\* the call ends: by return True, return False, or an error that escapes
Finish(how) ==
    /\ dpc' = "done"
    /\ outcome' = how

\* lines 222-242: the POST is answered 429
PostRateLimited(logged) ==
    /\ dpc = "loop"
    /\ \E resp \in RateLimitResponses :
         LET hits   == rate_limit_hits + 1
             parsed == parse_retry_after(resp.body, backoff)
             wait   == clamp_retry_after(parsed.value)
         IN  /\ posts' = Logged(logged, posts, resp)
             /\ rate_limit_hits' = hits
             /\ UNCHANGED <<attempt, backoff>>
             /\ IF rate_limit_exhausted(hits)
                THEN Finish("false") /\ UNCHANGED sleeps
                ELSE IF parsed.raised \/ sleep_raises(wait)
                THEN Finish("raised") /\ UNCHANGED sleeps
                ELSE /\ sleeps' = Logged(logged, sleeps, wait)
                     /\ UNCHANGED <<dpc, outcome>>

\* lines 260-262, then the while condition of line 216 (and line 264)
ConsumeAttempt(logged) ==
    /\ attempt' = attempt + 1
    /\ sleeps' = Logged(logged, sleeps, backoff)
    /\ backoff' = backoff * 2
    /\ UNCHANGED rate_limit_hits
    /\ IF attempts_left(attempt + 1)
       THEN UNCHANGED <<dpc, outcome>>
       ELSE Finish("false")

\* lines 244-262 for a response that is no 429
HandleOther(logged, resp) ==
    IF ~resp.raised /\ is_success(resp.status)
    THEN /\ Finish("true")
         /\ UNCHANGED <<attempt, rate_limit_hits, backoff, sleeps>>
    ELSE ConsumeAttempt(logged)

\* lines 244-245: the POST is answered 200 or 204
PostOk(logged) ==
    /\ dpc = "loop"
    /\ \E resp \in OkResponses :
         /\ posts' = Logged(logged, posts, resp)
         /\ HandleOther(logged, resp)

\* lines 247-262: any other status, or session.post raised a
\* requests.RequestException
PostFailed(logged) ==
    /\ dpc = "loop"
    /\ \E resp \in FailResponses :
         /\ posts' = Logged(logged, posts, resp)
         /\ HandleOther(logged, resp)

(***************************************************************************)
(* main (src/argus.py 466-575).                                            *)
(*                                                                         *)
(* pc is "startup" until send_startup_notification has returned, "while"   *)
(* at the test of the while condition, "loki" / "grafana" inside the two   *)
(* for loops (idx is the instance at hand), "wait" in the interval wait,   *)
(* "sleep" inside one time.sleep(1) of that wait,                          *)
(* "stopped" after the clean shutdown and "crashed" when an error left     *)
(* main. While send_discord_embed runs, caller names the helper that       *)
(* called it and pc stays where the call was made.                         *)
(***************************************************************************)
Endpoints == ({"Loki"} \X (1..NumLoki)) \cup {<<"Grafana", 1>>}

\* what check_loki / check_grafana return: (healthy, reason)
ProbeResults ==
    {[healthy |-> TRUE, reason |-> "ready"]}
    \cup {[healthy |-> FALSE, reason |-> r] : r \in LoopReasons}

\* the locals of send_discord_embed are gone once it has returned
DeliverEnd ==
    /\ dpc' = "idle"
    /\ attempt' = 0
    /\ rate_limit_hits' = 0
    /\ backoff' = 0
    /\ outcome' = "none"
    /\ posts' = <<>>
    /\ sleeps' = <<>>

\* mutant of NextInstance: the cycle ends after the Loki list
NextInstance_loki_only ==
    /\ pc' = "wait"
    /\ idx' = 0
    /\ waited' = 0
    /\ UNCHANGED cycle_error

\* the for loops move on: next instance, next list, or the interval wait
NextInstance ==
    /\ IF pc = "loki"
       THEN /\ pc' = IF idx < Len(loki_instances) THEN "loki" ELSE "grafana"
            /\ idx' = IF idx < Len(loki_instances) THEN idx + 1 ELSE 1
            /\ UNCHANGED waited
       ELSE /\ pc' = IF idx < Len(grafana_instances) THEN "grafana" ELSE "wait"
            /\ idx' = IF idx < Len(grafana_instances) THEN idx + 1 ELSE 0
            /\ waited' = IF idx < Len(grafana_instances) THEN waited ELSE 0
    /\ UNCHANGED cycle_error

\* mutant of AbandonCycle: the error leaves the while loop
AbandonCycle_leaves_loop ==
    /\ pc' = "crashed"
    /\ idx' = 0
    /\ waited' = 0
    /\ cycle_error' = TRUE

\* lines 563-564: except Exception ends the cycle; the wait follows
AbandonCycle ==
    /\ pc' = "wait"
    /\ idx' = 0
    /\ waited' = 0
    /\ cycle_error' = TRUE

\* line 491: send_startup_notification calls send_discord_embed
SendStartupNotification ==
    /\ pc = "startup"
    /\ caller = "none"
    /\ caller' = "startup"
    /\ DeliverStart
    /\ UNCHANGED <<pc, shutdown_requested, loki_instances, grafana_instances,
                   idx, waited, cycles, events, probed, cycle_error,
                   requested_at>>

\* lines 441-444: both results are only logged; an error that escaped
\* send_discord_embed leaves main, which has no handler around line 491
StartupNotificationReturns ==
    /\ caller = "startup"
    /\ dpc = "done"
    /\ pc' = IF outcome = "raised" THEN "crashed" ELSE "while"
    /\ caller' = "none"
    /\ DeliverEnd
    /\ UNCHANGED <<shutdown_requested, loki_instances, grafana_instances,
                   idx, waited, cycles, events, probed, cycle_error,
                   requested_at>>

\* line 517, condition true: a new iteration begins with the first Loki
EnterCycle ==
    /\ pc = "while"
    /\ ~shutdown_requested
    /\ cycles < MaxCycles
    /\ pc' = "loki"
    /\ idx' = 1
    /\ cycles' = cycles + 1
    /\ probed' = <<>>
    /\ cycle_error' = FALSE
    /\ UNCHANGED <<shutdown_requested, loki_instances, grafana_instances,
                   waited, caller, events, requested_at>>
    /\ UNCHANGED dvars

\* line 517, condition false, and lines 574-575
ExitLoop ==
    /\ pc = "while"
    /\ shutdown_requested
    /\ pc' = "stopped"
    /\ UNCHANGED <<shutdown_requested, loki_instances, grafana_instances,
                   idx, waited, cycles, caller, events, probed, cycle_error,
                   requested_at>>
    /\ UNCHANGED dvars

\* mutant of StoreState: the two lists share their ServiceState objects
StoreState_shared(kind, st) ==
    /\ loki_instances' = [loki_instances EXCEPT ![1] = st]
    /\ grafana_instances' = [grafana_instances EXCEPT ![1] = st]

\* lines 520 and 541: state is the ServiceState of the instance at hand,
\* an object of its own (lines 494-507) that record_* updates in place
StoreState(kind, st) ==
    IF kind = "Loki"
    THEN /\ loki_instances' = [loki_instances EXCEPT ![idx] = st]
         /\ UNCHANGED grafana_instances
    ELSE /\ grafana_instances' = [grafana_instances EXCEPT ![idx] = st]
         /\ UNCHANGED loki_instances

\* mutant of notification: every answered probe sends a recovery
notification_on_every_success(healthy, transitioned, st) ==
    IF healthy THEN "recovery"
    ELSE IF transitioned THEN "alert" ELSE "none"

\* mutant of notification: every failed probe of an unhealthy endpoint alerts
notification_on_every_failure(healthy, transitioned, st) ==
    IF healthy
    THEN IF transitioned THEN "recovery" ELSE "none"
    ELSE IF st.is_healthy THEN "none" ELSE "alert"

\* lines 524-538: send_recovery / send_alert only when record_* returned True
notification(healthy, transitioned, st) ==
    IF ~transitioned THEN "none"
    ELSE IF healthy THEN "recovery" ELSE "alert"

\* lines 524-538 (and 545-559): the probe result goes to the ServiceState;
\* a transition calls send_recovery / send_alert, else the loop moves on
Evaluate(kind, state, result) ==
    LET r == IF result.healthy
             THEN record_success(state)
             ELSE record_failure(state, result.reason)
        probe == IF result.healthy THEN "success" ELSE "failure"
        notice == notification(result.healthy, r.ret, r.state)
    IN  /\ StoreState(kind, r.state)
        /\ probed' = Append(probed, <<kind, idx>>)
        /\ IF notice # "none"
           THEN /\ events' = [events EXCEPT ![<<kind, idx>>] = @ \o <<probe, notice>>]
                /\ caller' = notice
                /\ DeliverStart
                /\ UNCHANGED <<pc, idx, waited, cycle_error>>
           ELSE /\ events' = [events EXCEPT ![<<kind, idx>>] = Append(@, probe)]
                /\ NextInstance
                /\ UNCHANGED caller
                /\ UNCHANGED dvars
        /\ UNCHANGED <<shutdown_requested, cycles, requested_at>>

\* lines 520-538
CheckLoki ==
    /\ pc = "loki"
    /\ caller = "none"
    /\ \E result \in ProbeResults : Evaluate("Loki", loki_instances[idx], result)

\* lines 541-559
CheckGrafana ==
    /\ pc = "grafana"
    /\ caller = "none"
    /\ \E result \in ProbeResults :
         Evaluate("Grafana", grafana_instances[idx], result)

\* lines 297-300: a 200 whose JSON body is no object makes data.get raise
\* AttributeError, which check_grafana does not catch; line 563 does
GrafanaProbeRaises ==
    /\ pc = "grafana"
    /\ caller = "none"
    /\ AbandonCycle
    /\ UNCHANGED <<shutdown_requested, loki_instances, grafana_instances,
                   cycles, caller, events, probed, requested_at>>
    /\ UNCHANGED dvars

\* mutant of escapes: a delivery that returned False ends the cycle too
escapes_unless_delivered(out) == out # "true"

\* an error raised inside send_discord_embed passes through send_alert /
\* send_recovery (no handler in lines 360-414) up to line 563
escapes(out) == out = "raised"

\* send_alert / send_recovery return (lines 383-386, 411-414: the result is
\* only logged); an error that escaped send_discord_embed reaches line 563
NotificationReturns ==
    /\ caller \in {"alert", "recovery"}
    /\ dpc = "done"
    /\ IF escapes(outcome) THEN AbandonCycle ELSE NextInstance
    /\ caller' = "none"
    /\ DeliverEnd
    /\ UNCHANGED <<shutdown_requested, loki_instances, grafana_instances,
                   cycles, events, probed, requested_at>>

\* mutant of wait_break: the wait never looks at the flag
wait_break_never == FALSE

\* line 569: if _shutdown_requested: break
wait_break == shutdown_requested

\* lines 568-571: the flag is clear, time.sleep(1) is entered
WaitTick ==
    /\ pc = "wait"
    /\ waited < CheckInterval
    /\ ~wait_break
    /\ pc' = "sleep"
    /\ UNCHANGED <<shutdown_requested, loki_instances, grafana_instances,
                   idx, waited, cycles, caller, events, probed, cycle_error,
                   requested_at>>
    /\ UNCHANGED dvars

\* line 571: time.sleep(1) returns after its full second, also when
\* _signal_handler ran meanwhile (the sleep is resumed after the handler)
SleepReturns ==
    /\ pc = "sleep"
    /\ pc' = "wait"
    /\ waited' = waited + 1
    /\ UNCHANGED <<shutdown_requested, loki_instances, grafana_instances,
                   idx, cycles, caller, events, probed, cycle_error,
                   requested_at>>
    /\ UNCHANGED dvars

\* lines 568-570: the range is used up, or the flag is seen: break
WaitEnds ==
    /\ pc = "wait"
    /\ (waited = CheckInterval \/ wait_break)
    /\ pc' = "while"
    /\ UNCHANGED <<shutdown_requested, loki_instances, grafana_instances,
                   idx, waited, cycles, caller, events, probed, cycle_error,
                   requested_at>>
    /\ UNCHANGED dvars

\* lines 454-459: _signal_handler, at any point of the running process
RequestShutdown ==
    /\ pc \notin {"stopped", "crashed"}
    /\ ~shutdown_requested
    /\ shutdown_requested' = TRUE
    /\ requested_at' = pc
    /\ UNCHANGED <<pc, loki_instances, grafana_instances, idx, waited,
                   cycles, caller, events, probed, cycle_error>>
    /\ UNCHANGED dvars

(***************************************************************************)
(* SpecServiceState: every sequence of calls on one ServiceState.          *)
(* Each log entry keeps the call, its argument, the value returned and     *)
(* is_healthy / consecutive_failures as read right before and after.       *)
(***************************************************************************)
CallEntry(op, reason, before, r) ==
    [op          |-> op,
     reason      |-> reason,
     ret         |-> r.ret,
     was_healthy |-> before.is_healthy,
     is_healthy  |-> r.state.is_healthy,
     failures    |-> r.state.consecutive_failures]

DeliverIdle ==
    /\ dpc = "idle"
    /\ attempt = 0
    /\ rate_limit_hits = 0
    /\ backoff = 0
    /\ outcome = "none"
    /\ posts = <<>>
    /\ sleeps = <<>>

\* main before line 491, with the ServiceStates of lines 494-507
MainAtStartup(threshold) ==
    /\ pc = "startup"
    /\ shutdown_requested = FALSE
    /\ loki_instances = [i \in 1..NumLoki |-> ServiceState(threshold)]
    /\ grafana_instances = <<ServiceState(threshold)>>
    /\ idx = 0
    /\ waited = 0
    /\ cycles = 0
    /\ caller = "none"
    /\ events = [e \in Endpoints |-> <<>>]
    /\ probed = <<>>
    /\ cycle_error = FALSE
    /\ requested_at = "none"

InitServiceState ==
    /\ \E t \in 1..MaxThreshold : service = ServiceState(t)
    /\ calls = <<>>
    /\ DeliverIdle
    /\ MainAtStartup(1)

RecordSuccess ==
    /\ Len(calls) < MaxCalls
    /\ LET r == record_success(service)
       IN  /\ service' = r.state
           /\ calls' = Append(calls, CallEntry("success", "", service, r))
    /\ UNCHANGED dvars
    /\ UNCHANGED mvars

RecordFailure ==
    /\ Len(calls) < MaxCalls
    /\ \E reason \in Reasons :
         LET r == record_failure(service, reason)
         IN  /\ service' = r.state
             /\ calls' = Append(calls, CallEntry("failure", reason, service, r))
    /\ UNCHANGED dvars
    /\ UNCHANGED mvars

NextServiceState == RecordSuccess \/ RecordFailure

SpecServiceState == InitServiceState /\ [][NextServiceState]_vars

(***************************************************************************)
(* SpecDeliver: one call of send_discord_embed, every sink behaviour, with *)
(* the log of its POSTs and sleeps.                                        *)
(***************************************************************************)
InitDeliver ==
    /\ service = ServiceState(1)
    /\ calls = <<>>
    /\ dpc = "loop"
    /\ attempt = 0
    /\ rate_limit_hits = 0
    /\ backoff = initial_backoff
    /\ outcome = "none"
    /\ posts = <<>>
    /\ sleeps = <<>>
    /\ MainAtStartup(1)

NextDeliver ==
    \/ PostRateLimited(TRUE) /\ UNCHANGED svars /\ UNCHANGED mvars
    \/ PostOk(TRUE) /\ UNCHANGED svars /\ UNCHANGED mvars
    \/ PostFailed(TRUE) /\ UNCHANGED svars /\ UNCHANGED mvars

SpecDeliver == InitDeliver /\ [][NextDeliver]_vars

(***************************************************************************)
(* Spec: main, from the startup notification on, with every probe result,  *)
(* every sink behaviour and a shutdown request at any point. The           *)
(* deliveries run step by step without their logs.                         *)
(***************************************************************************)
Init ==
    /\ service = ServiceState(1)
    /\ calls = <<>>
    /\ DeliverIdle
    /\ \E t \in 1..MaxThreshold : MainAtStartup(t)

Next ==
    \/ SendStartupNotification /\ UNCHANGED svars
    \/ StartupNotificationReturns /\ UNCHANGED svars
    \/ EnterCycle /\ UNCHANGED svars
    \/ ExitLoop /\ UNCHANGED svars
    \/ CheckLoki /\ UNCHANGED svars
    \/ CheckGrafana /\ UNCHANGED svars
    \/ GrafanaProbeRaises /\ UNCHANGED svars
    \/ NotificationReturns /\ UNCHANGED svars
    \/ WaitTick /\ UNCHANGED svars
    \/ SleepReturns /\ UNCHANGED svars
    \/ WaitEnds /\ UNCHANGED svars
    \/ RequestShutdown /\ UNCHANGED svars
    \/ PostRateLimited(FALSE) /\ UNCHANGED svars /\ UNCHANGED mvars
    \/ PostOk(FALSE) /\ UNCHANGED svars /\ UNCHANGED mvars
    \/ PostFailed(FALSE) /\ UNCHANGED svars /\ UNCHANGED mvars

Spec == Init /\ [][Next]_vars

\* FairSpec: main with FAILURE_THRESHOLD = 1 (every change of a probe's
\* answer notifies), and main keeps running: a step of the program that is
\* possible is eventually taken; nothing obliges a signal to arrive
InitFair ==
    /\ service = ServiceState(1)
    /\ calls = <<>>
    /\ DeliverIdle
    /\ MainAtStartup(1)

FairSpec ==
    /\ InitFair
    /\ [][Next]_vars
    /\ WF_vars(Next /\ shutdown_requested' = shutdown_requested)

(***************************************************************************)
(* Reading the call log.                                                   *)
(***************************************************************************)
RECURSIVE TrailingFailures(_)
\* number of record_failure calls at the end of log, back to the last
\* record_success or to construction
TrailingFailures(log) ==
    IF log = <<>> \/ log[Len(log)].op # "failure"
    THEN 0
    ELSE 1 + TrailingFailures(SubSeq(log, 1, Len(log) - 1))

\* failures recorded since the last success, as of right after call i
FailuresSince(i) == TrailingFailures(SubSeq(calls, 1, i))

IsFailure(i) == calls[i].op = "failure"
IsSuccess(i) == calls[i].op = "success"

\* index of the most recent record_failure, 0 when there is none
LastFailureIdx ==
    IF \E i \in 1..Len(calls) : IsFailure(i)
    THEN CHOOSE i \in 1..Len(calls) :
           IsFailure(i) /\ \A j \in (i+1)..Len(calls) : ~IsFailure(j)
    ELSE 0

(***************************************************************************)
(* C1. For every threshold >= 1 and every sequence of record_success /     *)
(* record_failure calls from construction, is_healthy after each call is   *)
(* TRUE exactly when fewer than threshold failures have been recorded      *)
(* since the last success (or since construction); so it stays FALSE       *)
(* until the next record_success.                                          *)
(***************************************************************************)
C1_HealthyIffBelowThreshold ==
    /\ service.is_healthy <=> (TrailingFailures(calls) < service.threshold)
    /\ \A i \in 1..Len(calls) :
         calls[i].is_healthy <=> (FailuresSince(i) < service.threshold)

\* an outage that follows a success, under a threshold that debounces
C1_Witness ==
    /\ service.threshold >= 2
    /\ ~service.is_healthy
    /\ \E i \in 1..Len(calls) : IsSuccess(i)
    /\ TrailingFailures(calls) > service.threshold

(***************************************************************************)
(* C2. In a run of consecutive record_failure calls that starts from a     *)
(* healthy state with consecutive_failures = 0 (construction, or right     *)
(* after a success), exactly one call returns TRUE: the threshold-th.      *)
(* Earlier and later failures of the run return FALSE; with threshold = 1  *)
(* the first failure returns TRUE.                                         *)
(***************************************************************************)
C2_OneAlertPerOutage ==
    \A i \in 1..Len(calls) :
        IsFailure(i) => (calls[i].ret <=> (FailuresSince(i) = service.threshold))

\* a run that went two failures past the threshold
C2_Witness ==
    /\ TrailingFailures(calls) >= service.threshold + 2
    /\ Cardinality({i \in 1..Len(calls) : IsFailure(i) /\ calls[i].ret}) = 1

(***************************************************************************)
(* C3. record_success returns TRUE exactly when is_healthy was FALSE       *)
(* right before the call, whatever the number of failures before it;       *)
(* after the call is_healthy is TRUE and consecutive_failures is 0, and a  *)
(* record_success right after it returns FALSE.                            *)
(***************************************************************************)
C3_RecoveredIffWasUnhealthy ==
    \A i \in 1..Len(calls) :
        IsSuccess(i) =>
            /\ calls[i].ret <=> ~calls[i].was_healthy
            /\ calls[i].is_healthy
            /\ calls[i].failures = 0
            /\ (i < Len(calls) /\ IsSuccess(i + 1)) => ~calls[i + 1].ret

\* a recovery followed at once by a second success
C3_Witness ==
    \E i \in 1..Len(calls) :
        /\ i < Len(calls)
        /\ IsSuccess(i) /\ calls[i].ret
        /\ IsSuccess(i + 1) /\ ~calls[i + 1].ret

(***************************************************************************)
(* C4, as claimed. Once a failure has been recorded, last_reason equals    *)
(* the reason of the most recent record_failure, whatever record_success   *)
(* calls were made since.                                                  *)
(***************************************************************************)
C4_LastReasonSurvivesSuccess ==
    LastFailureIdx > 0 => service.last_reason = calls[LastFailureIdx].reason

(***************************************************************************)
(* C4, amended. Once a failure has been recorded, last_reason equals the   *)
(* reason of the most recent record_failure, healthy or not, unless a      *)
(* record_success since that failure reported a recovery: then it is the   *)
(* empty string. A record_success that reports no transition leaves it.    *)
(***************************************************************************)
C4_LastReasonUntilRecovery ==
    LastFailureIdx > 0 =>
        service.last_reason =
            IF \E j \in (LastFailureIdx + 1)..Len(calls) : calls[j].ret
            THEN ""
            ELSE calls[LastFailureIdx].reason

\* while unhealthy a later failure replaced the reason of an earlier one,
\* then a recovery emptied last_reason
C4_Witness ==
    /\ LastFailureIdx >= 2
    /\ IsFailure(LastFailureIdx - 1)
    /\ ~calls[LastFailureIdx - 1].is_healthy
    /\ calls[LastFailureIdx - 1].reason # calls[LastFailureIdx].reason
    /\ \E j \in (LastFailureIdx + 1)..Len(calls) : calls[j].ret
    /\ service.last_reason = ""

(***************************************************************************)
(* Reading the events of an endpoint of main.                              *)
(***************************************************************************)
StateOf(e) ==
    IF e[1] = "Loki" THEN loki_instances[e[2]] ELSE grafana_instances[e[2]]

\* position of the first record_success of endpoint e, past the end if none
FirstSuccessPos(e) ==
    IF \E i \in 1..Len(events[e]) : events[e][i] = "success"
    THEN CHOOSE i \in 1..Len(events[e]) :
           /\ events[e][i] = "success"
           /\ \A j \in 1..(i - 1) : events[e][j] # "success"
    ELSE Len(events[e]) + 1

\* failures of endpoint e among its first i events
FailuresUpTo(e, i) == Cardinality({j \in 1..i : events[e][j] = "failure"})

(***************************************************************************)
(* C5, as claimed. Optimistic start: no "became unhealthy" is reported,    *)
(* and no alert is sent by the loop, for a failure recorded before the     *)
(* first record_success of that endpoint.                                  *)
(***************************************************************************)
C5_NoAlertBeforeFirstSuccess ==
    \A e \in Endpoints :
        \A i \in 1..(FirstSuccessPos(e) - 1) : events[e][i] # "alert"

(***************************************************************************)
(* C5, amended. A ServiceState starts healthy with no failure counted:     *)
(* before its first record_success it reports "became unhealthy", and the  *)
(* loop sends an alert for that endpoint, for exactly one failure, the     *)
(* threshold-th recorded since construction (the first when threshold is   *)
(* 1), and for no other; nothing before the first success is a recovery.   *)
(***************************************************************************)
C5_ColdStartAlertAtThreshold ==
    \A e \in Endpoints :
        \A i \in 1..(FirstSuccessPos(e) - 1) :
            /\ events[e][i] # "recovery"
            /\ events[e][i] = "failure" =>
                  ( (FailuresUpTo(e, i) = StateOf(e).threshold)
                    <=> (i < Len(events[e]) /\ events[e][i + 1] = "alert") )
            /\ events[e][i] = "alert" => (i > 1 /\ events[e][i - 1] = "failure")

\* an endpoint that never succeeded was alerted on its second failure and
\* failed once more without a second alert
C5_Witness ==
    \E e \in Endpoints :
        /\ StateOf(e).threshold = 2
        /\ events[e] = <<"failure", "failure", "alert", "failure">>

(***************************************************************************)
(* Reading the log of a delivery.                                          *)
(***************************************************************************)
AnsweredOk(resp) == resp \in OkResponses
Answered429(resp) == resp \in RateLimitResponses
AnsweredFailure(resp) == resp \in FailResponses

AllRateLimited == \A i \in 1..Len(posts) : Answered429(posts[i])
AllFailed == \A i \in 1..Len(posts) : AnsweredFailure(posts[i])

\* the wait a 429 asks for while no attempt has been used: its retry_after,
\* or the initial backoff when it carries none that can be read, capped
HintedWait(resp) ==
    IF resp.body.shape = "number"
    THEN Min(resp.body.retry_after, max_retry_after)
    ELSE initial_backoff

(***************************************************************************)
(* C6. send_discord_embed never lets an error escape: whatever the sink    *)
(* answers (transport failures, other statuses, 429 with a body that is    *)
(* not JSON, not an object, or whose retry_after is missing, null,         *)
(* non-numeric or negative), the call ends by returning true or false.     *)
(***************************************************************************)
C6_NeverRaises == outcome # "raised"

(***************************************************************************)
(* C7, as claimed, for the deliveries that return. Against a sink that     *)
(* answers every POST with 429 the call returns false after exactly        *)
(* max_rate_limit_retries = 5 POSTs answered 429, with no attempt used.    *)
(***************************************************************************)
C7_FalseAfterFiveHits ==
    (dpc = "done" /\ outcome # "raised" /\ AllRateLimited) =>
        /\ outcome = "false"
        /\ Len(posts) = max_rate_limit_retries
        /\ attempt = 0

(***************************************************************************)
(* C7, amended. Against a sink that answers every POST with 429 the call   *)
(* uses no attempt and never returns true; it returns false exactly on the *)
(* 6th 429 (rate_limit_hits = 6 > max_rate_limit_retries), after 5         *)
(* rate-limit sleeps; it ends before that only by the escaping error of    *)
(* C6, within the first 5 answers.                                         *)
(***************************************************************************)
C7_FalseOnSixthHit ==
    (dpc = "done" /\ AllRateLimited) =>
        /\ attempt = 0
        /\ backoff = initial_backoff
        /\ rate_limit_hits = Len(posts)
        /\ \/ /\ outcome = "false"
              /\ Len(posts) = max_rate_limit_retries + 1
              /\ Len(sleeps) = max_rate_limit_retries
           \/ /\ outcome = "raised"
              /\ Len(posts) <= max_rate_limit_retries
              /\ Len(sleeps) = Len(posts) - 1

\* six 429 answers in a row ended the delivery with false
C7_Witness ==
    /\ dpc = "done"
    /\ AllRateLimited
    /\ outcome = "false"
    /\ Len(posts) = 6

(***************************************************************************)
(* C8. Against a sink that answers every POST with a failure other than    *)
(* 429 (another status, or a transport error) the call makes exactly 3     *)
(* POSTs, returns false, and sleeps exactly 2 then 4: it sleeps only when  *)
(* an attempt remains.                                                     *)
(***************************************************************************)
C8_ThreePostsSleepTwoFour ==
    (dpc = "done" /\ AllFailed) =>
        /\ Len(posts) = max_attempts
        /\ outcome = "false"
        /\ sleeps = <<2, 4>>

(***************************************************************************)
(* C9. A 429 uses no attempt and leaves backoff alone, only                *)
(* rate_limit_hits grows by one; hence against a sink that answers 429     *)
(* for the first k <= 5 POSTs and 200 after them, the delivery goes on     *)
(* through the k answers and then succeeds with no attempt used, having    *)
(* slept exactly the k clamped waits.                                      *)
(***************************************************************************)
C9_RateLimitedThenOk ==
    /\ (AllRateLimited /\ Len(posts) <= max_rate_limit_retries) =>
          /\ dpc = "loop"
          /\ attempt = 0
          /\ backoff = initial_backoff
          /\ rate_limit_hits = Len(posts)
          /\ sleeps = [i \in 1..Len(posts) |-> HintedWait(posts[i])]
    /\ \A k \in 0..max_rate_limit_retries :
          ( /\ Len(posts) = k + 1
            /\ \A i \in 1..k : Answered429(posts[i])
            /\ AnsweredOk(posts[k + 1]) ) =>
              /\ outcome = "true"
              /\ attempt = 0
              /\ sleeps = [i \in 1..k |-> HintedWait(posts[i])]

(***************************************************************************)
(* C10. send_discord_embed returns true exactly when a POST of the         *)
(* delivery was answered 200 or 204; that POST is the last one, no sleep   *)
(* follows it, and when the first POST is answered so the delivery is that *)
(* one POST and no sleep.                                                  *)
(***************************************************************************)
C10_TrueIffAnsweredOk ==
    /\ outcome = "true" <=> \E i \in 1..Len(posts) : AnsweredOk(posts[i])
    /\ \A i \in 1..Len(posts) :
          AnsweredOk(posts[i]) =>
              /\ i = Len(posts)
              /\ dpc = "done"
              /\ Len(sleeps) = Len(posts) - 1
    /\ (posts # <<>> /\ AnsweredOk(posts[1])) =>
          /\ Len(posts) = 1
          /\ sleeps = <<>>
          /\ outcome = "true"

\* success on a 204 that came after a rate limit and a failed attempt
C10_Witness ==
    /\ outcome = "true"
    /\ Len(posts) >= 3
    /\ posts[Len(posts)].status = 204
    /\ \E i \in 1..Len(posts) : Answered429(posts[i])
    /\ \E i \in 1..Len(posts) : AnsweredFailure(posts[i])

(***************************************************************************)
(* C11. Every wait performed after a 429 equals min(h, 60), h being the    *)
(* retry_after read from the body or, when it carries none that can be     *)
(* read, the current backoff: 2 doubled once per attempt used so far. No   *)
(* rate-limit wait exceeds 60. (Sleep i of a delivery follows POST i.)     *)
(***************************************************************************)
RECURSIVE Pow2(_)
Pow2(n) == IF n = 0 THEN 1 ELSE 2 * Pow2(n - 1)

\* attempts used before POST i: the POSTs before it that failed
AttemptsBefore(i) ==
    Cardinality({j \in 1..(i - 1) : AnsweredFailure(posts[j])})

HintAt(i) ==
    IF posts[i].body.shape = "number"
    THEN posts[i].body.retry_after
    ELSE initial_backoff * Pow2(AttemptsBefore(i))

C11_RateLimitWaitClamped ==
    \A i \in 1..Len(sleeps) :
        Answered429(posts[i]) =>
            /\ sleeps[i] = (IF HintAt(i) <= 60 THEN HintAt(i) ELSE 60)
            /\ sleeps[i] <= 60

\* one wait cut down to 60, and one fallen back to a doubled backoff
C11_Witness ==
    /\ \E i \in 1..Len(sleeps) :
          /\ Answered429(posts[i])
          /\ posts[i].body.shape = "number"
          /\ posts[i].body.retry_after > 60
          /\ sleeps[i] = 60
    /\ \E i \in 1..Len(sleeps) :
          /\ Answered429(posts[i])
          /\ posts[i].body.shape = "no_retry_after"
          /\ AttemptsBefore(i) = 2
          /\ sleeps[i] = 8

(***************************************************************************)
(* C20. send_discord_embed terminates whatever the sink answers: a         *)
(* delivery makes at most 8 POSTs, at most 3 of them used attempts and at  *)
(* most 6 answered 429, the 6th ending it; while it runs, fewer than 3     *)
(* attempts are used and at most 5 rate limits were hit, and every POST    *)
(* adds to one of the two counts.                                          *)
(***************************************************************************)
C20_AtMostEightPosts ==
    /\ Len(posts) <= 8
    /\ Cardinality({i \in 1..Len(posts) : AnsweredFailure(posts[i])}) <= 3
    /\ Cardinality({i \in 1..Len(posts) : Answered429(posts[i])}) <= 6
    /\ dpc = "loop" =>
          /\ attempt < 3
          /\ rate_limit_hits <= 5
          /\ attempt + rate_limit_hits = Len(posts)
    /\ Len(posts) = 8 => dpc = "done"

\* the longest delivery: 5 tolerated rate limits among 3 failed attempts
C20_Witness ==
    /\ dpc = "done"
    /\ Len(posts) = 8
    /\ attempt = 3
    /\ rate_limit_hits = 5

(***************************************************************************)
(* Claims about main.                                                      *)
(***************************************************************************)
\* main has been left: by the clean shutdown or by an error
Exited == pc \in {"stopped", "crashed"}

\* C12: the process terminates only after an explicit shutdown request:
\* whatever the monitored targets and the sink do, main is never left
\* while the shutdown flag is false.
\* Violated: an error that escapes send_discord_embed during the startup
\* notification (line 491, outside the try of the loop) leaves main with
\* the flag still false.
C12_ExitsOnlyOnShutdown == Exited => shutdown_requested

\* the endpoints in the order of the two for loops: the Loki list in
\* its order, then the Grafana list
ConfiguredOrder ==
    [i \in 1..(NumLoki + 1) |->
        IF i <= NumLoki THEN <<"Loki", i>> ELSE <<"Grafana", i - NumLoki>>]

\* a cycle is under way: the loop stands inside one of the for loops
InCycle == pc \in {"loki", "grafana"}

\* the step in which an error reaches the except of line 563
ErrorCaught == InCycle /\ ~cycle_error /\ cycle_error'

\* C13: an unexpected error raised inside a cycle is caught at the cycle
\* boundary. The step that catches it leaves the for loops for the interval
\* wait, which starts from zero, and probes nothing; no endpoint is probed
\* and no notification is started until the next cycle, which begins with
\* an empty record at the first endpoint of the list; the loop is never
\* left by such an error (it is left only on a shutdown request).
C13_ErrorAbandonsCycleOnly ==
    [][ /\ ErrorCaught =>
            /\ pc' = "wait"
            /\ waited' = 0
            /\ probed' = probed
            /\ events' = events
            /\ loki_instances' = loki_instances
            /\ grafana_instances' = grafana_instances
            /\ caller' = "none"
        /\ (cycle_error /\ cycle_error') =>
            /\ pc' \in {"wait", "sleep", "while", "stopped"}
            /\ probed' = probed
            /\ events' = events
            /\ caller' = "none"
            /\ pc' = "stopped" => shutdown_requested
        /\ (cycle_error /\ ~cycle_error') =>
            /\ pc = "while"
            /\ pc' = "loki"
            /\ idx' = 1
            /\ probed' = <<>>
            /\ cycles' = cycles + 1
        /\ (cycles > 0 /\ pc' = "crashed") => FALSE
      ]_vars

\* reached: an alert for Loki raised in the first cycle, so Grafana was
\* not probed in it; the second cycle probed both and stands in its wait
C13_Witness ==
    /\ cycles = 2
    /\ pc = "wait"
    /\ ~cycle_error
    /\ probed = ConfiguredOrder
    /\ events[<<"Loki", 1>>] = <<"failure", "alert", "failure">>
    /\ events[<<"Grafana", 1>>] = <<"success">>
    /\ NumLoki = 1

\* the shutdown request arrived during the interval wait
RequestedInWait == requested_at \in {"wait", "sleep"}

\* C14: interruptible wait. Once shutdown was requested during the interval
\* wait, the only steps left are: the time.sleep(1) in progress returns,
\* the wait breaks, the while condition fails and main shuts down. No
\* further sleep is entered, nothing is probed or notified, no cycle
\* starts, and the loop does terminate.
C14_InterruptibleWait ==
    /\ [][ RequestedInWait =>
            /\ <<pc, pc'>> \in {<<"sleep", "wait">>, <<"wait", "while">>,
                                <<"while", "stopped">>}
            /\ waited' = IF pc = "sleep" THEN waited + 1 ELSE waited
            /\ UNCHANGED <<events, probed, caller, cycles, dpc,
                           loki_instances, grafana_instances,
                           shutdown_requested>>
         ]_vars
    /\ RequestedInWait ~> (pc = "stopped")

\* reached: the request came during the first sleep of the wait; main has
\* stopped with that one sleep completed and the interval not waited out
C14_Witness ==
    /\ pc = "stopped"
    /\ requested_at = "sleep"
    /\ waited = 1
    /\ waited < CheckInterval

\* a logged event that is a notification handed to the Notifier
IsNotice(x) == x \in {"alert", "recovery"}

\* the notifications of endpoint e, in the order they were handed over
Notices(e) == SelectSeq(events[e], IsNotice)

\* no notification of an endpoint repeats the one before it
NoticesAlternate(ev) ==
    \A e \in Endpoints :
        LET n == SelectSeq(ev[e], IsNotice)
        IN  \A i \in 1..(Len(n) - 1) : n[i] # n[i + 1]

\* where the for loops stand after the instance at <<p, i>>
After(p, i) ==
    IF p = "loki"
    THEN IF i < NumLoki THEN <<"loki", i + 1>> ELSE <<"grafana", 1>>
    ELSE <<"wait", 0>>

\* send_discord_embed has returned False to send_alert / send_recovery
DeliveryFailed ==
    /\ caller \in {"alert", "recovery"}
    /\ dpc = "done"
    /\ outcome = "false"

\* C15: a failed delivery is non-fatal and leaves the monitoring state
\* alone. From the transition to the return of send_alert / send_recovery
\* no ServiceState changes; when send_discord_embed returned False the loop
\* goes on to the next endpoint of the same cycle (no error, nothing
\* probed or notified in that step); and no endpoint is ever handed the
\* same kind of notification twice in a row, so a missed one is not sent
\* again by a later cycle.
C15_FailedDeliveryNonFatal ==
    [][ /\ caller \in {"alert", "recovery"} =>
            /\ loki_instances' = loki_instances
            /\ grafana_instances' = grafana_instances
        /\ (DeliveryFailed /\ caller' # caller) =>
            /\ caller' = "none"
            /\ ~cycle_error'
            /\ <<pc', idx'>> = After(pc, idx)
            /\ UNCHANGED <<events, probed, cycles>>
        /\ NoticesAlternate(events')
      ]_vars

\* reached: the alert for the first Loki instance, sent at its threshold-th
\* failure, came back False; the instance is unhealthy as the transition
\* left it
C15_Witness ==
    /\ DeliveryFailed
    /\ caller = "alert"
    /\ pc = "loki"
    /\ ~loki_instances[1].is_healthy
    /\ loki_instances[1].consecutive_failures = loki_instances[1].threshold
    /\ loki_instances[1].last_reason = "timeout"

\* the step records a probe result; LastProbed' is the endpoint it is of
ProbeStep == Len(probed') = Len(probed) + 1
LastProbed == probed[Len(probed)]

\* C16: exactly one event per transition, of the matching kind, right
\* after the probe result that caused it. A probe result that takes its
\* endpoint from healthy to unhealthy is followed at once by one call of
\* send_alert, one that takes it back by one call of send_recovery, and
\* any other result by no call; send_discord_embed is entered inside the
\* loop in such a step only; so per endpoint alerts and recoveries
\* alternate, beginning with an alert.
C16_OneEventPerTransition ==
    [][ /\ \A e \in Endpoints : (ProbeStep /\ e = LastProbed') =>
            LET was == StateOf(e).is_healthy
                now == StateOf(e)'.is_healthy
            IN  /\ (was /\ ~now) =>
                    /\ events'[e] = events[e] \o <<"failure", "alert">>
                    /\ caller' = "alert"
                    /\ dpc' = "loop"
                /\ (~was /\ now) =>
                    /\ events'[e] = events[e] \o <<"success", "recovery">>
                    /\ caller' = "recovery"
                    /\ dpc' = "loop"
                /\ (was = now) =>
                    /\ \/ events'[e] = Append(events[e], "success")
                       \/ events'[e] = Append(events[e], "failure")
                    /\ caller' = "none"
                    /\ dpc' = "idle"
        /\ (pc # "startup" /\ dpc = "idle" /\ dpc' # "idle") => ProbeStep
        /\ (caller' # caller /\ caller' \in {"alert", "recovery"}) => ProbeStep
        /\ ~ProbeStep => events' = events
        /\ NoticesAlternate(events')
        /\ \A e \in Endpoints : Notices(e)' # <<>> => Notices(e)'[1] = "alert"
      ]_vars

\* reached: with threshold 1 the first Loki instance failed (alert), failed
\* again (nothing), then answered (recovery, being sent now)
C16_Witness ==
    /\ events[<<"Loki", 1>>] =
           <<"failure", "alert", "failure", "success", "recovery">>
    /\ caller = "recovery"
    /\ dpc = "loop"
    /\ loki_instances[1].is_healthy

\* the shutdown request arrived while a cycle was in progress
RequestedInCycle == requested_at \in {"loki", "grafana"}

\* the for loops of the current iteration are over
CycleOver == pc \in {"wait", "sleep", "while", "stopped"}

\* C17: the flag is observed only at cycle boundaries and at wait ticks.
\* Once set the flag stays set; and when the request arrived while a cycle
\* was in progress, that cycle has, by the time its for loops are over,
\* probed every endpoint, and the interval wait that follows enters no
\* sleep.
\* Violated: after the request the cycle is cut short when the alert or
\* recovery it sends raises out of send_discord_embed, or when
\* check_grafana raises on a JSON body that is no object; the endpoints
\* after that one are not probed before main stops.
C17_RequestedCycleCompletes ==
    /\ requested_at # "none" => shutdown_requested
    /\ (RequestedInCycle /\ CycleOver) =>
        /\ probed = ConfiguredOrder
        /\ ~cycle_error
        /\ pc # "sleep"
        /\ waited = 0

\* the states record_success / record_failure can leave from state st
Recorded(st, probe) ==
    IF probe = "success"
    THEN {record_success(st).state}
    ELSE {record_failure(st, r).state : r \in LoopReasons}

IsProbe(x) == x \in {"success", "failure"}

\* the probe results of endpoint e, in the order they were recorded
Probes(e) == SelectSeq(events[e], IsProbe)

RECURSIVE Replay(_, _, _)
\* the ServiceState st fed the results rest, one after the other: the
\* state it ends in and, after out, the events it gives rise to
Replay(st, out, rest) ==
    IF rest = <<>>
    THEN [state |-> st, events |-> out]
    ELSE LET x == Head(rest)
             r == IF x = "success"
                  THEN record_success(st)
                  ELSE record_failure(st, CHOOSE rs \in LoopReasons : TRUE)
             notice == IF x = "success" THEN "recovery" ELSE "alert"
         IN  Replay(r.state,
                    out \o (IF r.ret THEN <<x, notice>> ELSE <<x>>),
                    Tail(rest))

\* a ServiceState of its own, built with the threshold and fed the results
\* alone
Replayed(threshold, results) == Replay(ServiceState(threshold), <<>>, results)

\* what is on record for endpoint e is what its own results alone give
OwnResultsOnly(e) ==
    LET alone == Replayed(StateOf(e).threshold, Probes(e))
    IN  /\ events[e] = alone.events
        /\ StateOf(e).is_healthy = alone.state.is_healthy
        /\ StateOf(e).consecutive_failures = alone.state.consecutive_failures

\* C19: endpoint independence. A step that records a probe result changes
\* the ServiceState and the events of that endpoint only, and no other
\* step changes any of them; and after the step that endpoint's state and
\* its sequence of alerts and recoveries are those that its own probe
\* results alone produce, whatever was recorded for the other endpoints.
C19_EndpointIndependence ==
    [][ /\ \A e \in Endpoints : (ProbeStep /\ e = LastProbed') =>
            /\ \A f \in Endpoints \ {e} :
                    /\ StateOf(f)' = StateOf(f)
                    /\ events'[f] = events[f]
            /\ OwnResultsOnly(e)'
        /\ ~ProbeStep =>
            /\ loki_instances' = loki_instances
            /\ grafana_instances' = grafana_instances
            /\ events' = events
      ]_vars

\* reached: with threshold 1, Loki has failed twice (one alert) while
\* Grafana, probed after it each time, answered and is untouched
C19_Witness ==
    /\ events[<<"Loki", 1>>] = <<"failure", "alert", "failure">>
    /\ events[<<"Grafana", 1>>] = <<"success", "success">>
    /\ ~loki_instances[1].is_healthy
    /\ loki_instances[1].consecutive_failures = 2
    /\ grafana_instances[1].is_healthy
    /\ grafana_instances[1].consecutive_failures = 0
    /\ grafana_instances[1].last_reason = ""

\* how many of the notifications of endpoint e are of the given kind
NoticeCount(e, kind) ==
    Cardinality({i \in 1..Len(Notices(e)) : Notices(e)[i] = kind})

\* C21: for each endpoint the alerts and recoveries handed to the Notifier
\* strictly alternate and start with an alert: the notification at an odd
\* position is an alert, the one at an even position a recovery; so the
\* alerts outnumber the recoveries by 0 or by 1, and by 1 exactly when the
\* endpoint's is_healthy is false.
C21_AlertsAndRecoveriesAlternate ==
    \A e \in Endpoints :
        LET n == Notices(e)
            open == NoticeCount(e, "alert") - NoticeCount(e, "recovery")
        IN  /\ \A i \in 1..Len(n) :
                   n[i] = IF i % 2 = 1 THEN "alert" ELSE "recovery"
            /\ open \in {0, 1}
            /\ (open = 1) <=> ~StateOf(e).is_healthy

\* reached: with threshold 1 the first Loki instance went down, came back
\* and went down again (alert, recovery, alert; unhealthy now), while
\* Grafana, never down, has no notification
C21_Witness ==
    /\ events[<<"Loki", 1>>] =
           <<"failure", "alert", "success", "recovery", "failure", "alert">>
    /\ ~loki_instances[1].is_healthy
    /\ Notices(<<"Grafana", 1>>) = <<>>
    /\ Len(events[<<"Grafana", 1>>]) > 0
    /\ grafana_instances[1].is_healthy

(***************************************************************************)
(* Claims about the fields of a ServiceState.                              *)
(***************************************************************************)
\* is_healthy and consecutive_failures agree, for the given threshold
CountMatchesHealth(threshold, is_healthy, failures) ==
    /\ failures >= 0
    /\ is_healthy => failures < threshold
    /\ ~is_healthy => failures >= threshold

\* C22: in every reachable ServiceState with threshold >= 1,
\* consecutive_failures is never negative, is below the threshold while
\* is_healthy is true and at or above it while is_healthy is false, at
\* construction and after every call; and right after a record_failure
\* that returned True, consecutive_failures equals the threshold exactly.
C22_CountAgreesWithHealth ==
    /\ service.threshold >= 1
    /\ CountMatchesHealth(service.threshold, service.is_healthy,
                          service.consecutive_failures)
    /\ \A i \in 1..Len(calls) :
        /\ CountMatchesHealth(service.threshold, calls[i].is_healthy,
                              calls[i].failures)
        /\ (IsFailure(i) /\ calls[i].ret) =>
               calls[i].failures = service.threshold

\* reached: under a threshold of 2 or more, after a success, a
\* record_failure returned True at exactly threshold failures, and further
\* failures have taken the count above the threshold
C22_Witness ==
    /\ service.threshold >= 2
    /\ ~service.is_healthy
    /\ service.consecutive_failures > service.threshold
    /\ \E i \in (service.threshold + 1)..Len(calls) :
        /\ IsFailure(i)
        /\ calls[i].ret
        /\ calls[i].failures = service.threshold
        /\ IsSuccess(i - service.threshold)

====
